---- MODULE Spec2Model ----
(***************************************************************************)
(* StudyConnect 2.0: the client-side state of the page components.  Every  *)
(* page keeps its data in React state; the Next.js router mounts exactly   *)
(* one page for the current pathname and a page's state is created anew    *)
(* each time the page is mounted.  Strings that the code inspects          *)
(* character by character (titles, names, search text, the pathname) are   *)
(* sequences of one-character strings; strings that are only compared for  *)
(* equality (subjects, ids, chip labels) are plain strings.                *)
(***************************************************************************)
EXTENDS Integers, Sequences, FiniteSets, TLC

VARIABLES
    route,                 \* the URL the browser is at, as path segments
    pathname,              \* BottomNav: usePathname()
    searchQuery,           \* ResourcesPage
    selectedCategory,      \* ResourcesPage
    filteredResources,     \* ResourcesPage: the list rendered
    homeQuery,             \* Home: query
    filteredPeers,         \* Home: the peers rendered
    homeFilteredResources, \* Home: the resources rendered
    chatQuery,             \* ChatPage: query
    filteredChats,         \* ChatPage: the conversations rendered
    step,                  \* FindPeersPage
    selectedUni,           \* FindPeersPage
    selectedFilter,        \* FindPeersPage
    filteredStudents,      \* FindPeersPage: the students computed for rendering
    uploads,               \* ManageUploadsPage
    deletingId,            \* ManageUploadsPage
    file,                  \* UploadResourcePage
    isUploading,           \* UploadResourcePage
    timers,                \* pending setTimeout callbacks of the mounted page, oldest first
    alerts,                \* the number of alert() dialogs the mounted page has shown
    confirmAnswer,         \* the user's answer to the last confirm() dialog of the mounted page
    lastBack               \* what the last click on the wizard's back button called

vars ==
    << route, pathname, searchQuery, selectedCategory, filteredResources,
       homeQuery, filteredPeers, homeFilteredResources, chatQuery, filteredChats,
       step, selectedUni, selectedFilter, filteredStudents,
       uploads, deletingId, file, isUploading, timers, alerts,
       confirmAnswer, lastBack >>

resourcesVars == << searchQuery, selectedCategory, filteredResources >>
homeVars == << homeQuery, filteredPeers, homeFilteredResources >>
chatVars == << chatQuery, filteredChats >>
wizardVars == << step, selectedUni, selectedFilter, filteredStudents >>
uploadsVars == << uploads, deletingId >>
uploadVars == << file, isUploading >>

----------------------------------------------------------------------------
(* Bounds of the model *)

\* longest search text typed into a search bar
MaxQueryLen == 4
\* most setTimeout callbacks pending at once
MaxTimers == 3
\* an upload is started only while the page has shown fewer alerts than this
MaxAlerts == 3

\* characters typed into the search bars
QueryAlphabet == {"c", "C", "a", "A", "l"}

----------------------------------------------------------------------------
(* Mock data *)

allResources ==
    << [id |-> 1, subject |-> "Mathematics", type |-> "PDF",
        title |-> <<"C", "a", "l", "c", "u", "l", "u", "s", " ", "1", "0", "1", " ",
                    "F", "i", "n", "a", "l", "s">>],
       [id |-> 2, subject |-> "Comp. Sci", type |-> "DOC",
        title |-> <<"D", "a", "t", "a", " ", "S", "t", "r", "u", "c", "t", "u", "r",
                    "e", "s", " ", "N", "o", "t", "e", "s">>],
       [id |-> 3, subject |-> "Physics", type |-> "XLS",
        title |-> <<"P", "h", "y", "s", "i", "c", "s", " ", "L", "a", "b", " ", "R",
                    "e", "s", "u", "l", "t", "s">>],
       [id |-> 4, subject |-> "Mathematics", type |-> "PDF",
        title |-> <<"L", "i", "n", "e", "a", "r", " ", "A", "l", "g", "e", "b", "r",
                    "a", " ", "I", "n", "t", "r", "o">>],
       [id |-> 5, subject |-> "Comp. Sci", type |-> "PDF",
        title |-> <<"R", "e", "a", "c", "t", ".", "j", "s", " ", "C", "r", "a", "s",
                    "h", " ", "C", "o", "u", "r", "s", "e">>] >>

categories == << "All", "Mathematics", "Comp. Sci", "Physics" >>

peers ==
    << [id |-> "nomsa",
        name |-> <<"N", "o", "m", "s", "a", " ", "D", "l", "a", "m", "i", "n", "i">>],
       [id |-> "khotso",
        name |-> <<"K", "h", "o", "t", "s", "o", " ", "M", "o", "k", "o", "e", "n",
                  "a">>],
       [id |-> "sipho",
        name |-> <<"S", "i", "p", "h", "o", " ", "Z", "u", "l", "u">>] >>

resources ==
    << [id |-> 1, type |-> "PDF",
        title |-> <<"C", "a", "l", "c", "u", "l", "u", "s", " ", "1", "0", "1", " ",
                   "F", "i", "n", "a", "l", "s">>],
       [id |-> 2, type |-> "DOC",
        title |-> <<"D", "a", "t", "a", " ", "S", "t", "r", "u", "c", "t", "u", "r",
                   "e", "s", " ", "N", "o", "t", "e", "s">>],
       [id |-> 3, type |-> "XLS",
        title |-> <<"P", "h", "y", "s", "i", "c", "s", " ", "L", "a", "b", " ", "R",
                   "e", "s", "u", "l", "t", "s">>] >>

chats ==
    << [id |-> "nomsa", time |-> "10:30 AM", unread |-> 2,
        message |-> "Did you get the answer for Q3?",
        name |-> <<"N", "o", "m", "s", "a", " ", "D", "l", "a", "m", "i", "n", "i">>],
       [id |-> "studygroup", time |-> "Yesterday", unread |-> 0,
        message |-> "Thabo: I'll bring the past papers.",
        name |-> <<"S", "t", "u", "d", "y", " ", "G", "r", "o", "u", "p", " ", "A">>],
       [id |-> "khotso", time |-> "Mon", unread |-> 0,
        message |-> "Thanks man, really appreciate it!",
        name |-> <<"K", "h", "o", "t", "s", "o", " ", "M", "o", "k", "o", "e", "n",
                  "a">>] >>

\* the conversation logs of the chat detail page, oldest message first (the
\* emoji of the first message is left out of its text)
messagesDB ==
    [id \in {"nomsa", "khotso", "studygroup"} |->
        CASE id = "nomsa" ->
                 << [text |-> "Hey Thabo! Are you coming online for the study group session later?",
                     time |-> "10:30 AM", isMe |-> FALSE],
                    [text |-> "Yes! I'll be there.", time |-> "10:32 AM", isMe |-> TRUE],
                    [text |-> "Did you get the answer for Q3?", time |-> "10:33 AM",
                     isMe |-> FALSE] >>
          [] id = "khotso" ->
                 << [text |-> "Yo, are you done with the CS assignment?", time |-> "Mon",
                     isMe |-> TRUE],
                    [text |-> "Yeah just submitted it now.", time |-> "Mon", isMe |-> FALSE],
                    [text |-> "Thanks man, really appreciate the help!", time |-> "Mon",
                     isMe |-> FALSE] >>
          [] id = "studygroup" ->
                 << [text |-> "Guys, are we meeting at the library or online?",
                     time |-> "Yesterday", isMe |-> FALSE],
                    [text |-> "I think online is better today.", time |-> "Yesterday",
                     isMe |-> FALSE],
                    [text |-> "Cool. I'll bring the past papers.", time |-> "Yesterday",
                     isMe |-> TRUE] >>]

\* ChatDetail: the messages rendered for a conversation id
ChatDetailMessages(chatId) ==
    IF chatId \in DOMAIN messagesDB THEN messagesDB[chatId] ELSE << >>

universities == << "ukzn", "uct", "wits", "up", "uj" >>

mockStudents ==
    << [name |-> "Sipho M.", uni |-> "ukzn", year |-> "3rd Year", course |-> "Comp Sci"],
       [name |-> "Thando Z.", uni |-> "ukzn", year |-> "1st Year", course |-> "Mathematics"],
       [name |-> "Kyle V.", uni |-> "uct", year |-> "2nd Year", course |-> "Economics"],
       [name |-> "Lerato K.", uni |-> "wits", year |-> "Honours", course |-> "Physics"],
       [name |-> "Jason D.", uni |-> "up", year |-> "1st Year", course |-> "Informatics"] >>

yearFilters == << "All", "1st Year", "2nd Year", "3rd Year", "Honours" >>

initialUploads ==
    << [id |-> 1, name |-> "Calculus 101 Finals", type |-> "PDF"],
       [id |-> 2, name |-> "Physics Lab Results", type |-> "XLS"],
       [id |-> 3, name |-> "Project Proposal v2", type |-> "DOC"] >>

\* the null of the string-valued states (selectedUni, file)
null == "null"

\* the null of deletingId, which is a number otherwise; no upload has id 0
nullId == 0

\* files the user can pick in the file dialog
Files == {"notes.pdf", "photo.jpg", "scan.pdf", "lecture.mp4"}

\* File.type and File.size (in whole megabytes) of those files
FileType ==
    [f \in Files |->
        CASE f = "notes.pdf" -> "PDF"
          [] f = "photo.jpg" -> "JPG"
          [] f = "scan.pdf" -> "PDF"
          [] f = "lecture.mp4" -> "MP4"]

FileSizeMB ==
    [f \in Files |->
        CASE f = "notes.pdf" -> 2
          [] f = "photo.jpg" -> 3
          [] f = "scan.pdf" -> 25
          [] f = "lecture.mp4" -> 8]

\* the drop zone's hint: "PDF, DOCX, JPG (Max 10MB)"
AllowedTypes == {"PDF", "DOCX", "JPG"}

MaxFileSizeMB == 10

----------------------------------------------------------------------------
(* String operations of the JavaScript runtime *)

UpperCaseLetters ==
    <<"A", "B", "C", "D", "E", "F", "G", "H", "I", "J", "K", "L", "M",
      "N", "O", "P", "Q", "R", "S", "T", "U", "V", "W", "X", "Y", "Z">>

LowerCaseLetters ==
    <<"a", "b", "c", "d", "e", "f", "g", "h", "i", "j", "k", "l", "m",
      "n", "o", "p", "q", "r", "s", "t", "u", "v", "w", "x", "y", "z">>

\* the lower-case letter of every upper-case letter of the ASCII range
LowerCaseOf ==
    [c \in {UpperCaseLetters[i] : i \in 1..Len(UpperCaseLetters)} |->
        LowerCaseLetters[CHOOSE i \in 1..Len(UpperCaseLetters) : UpperCaseLetters[i] = c]]

\* String.prototype.toLowerCase on one UTF-16 code unit of the ASCII range
toLowerCaseChar(c) == IF c \in DOMAIN LowerCaseOf THEN LowerCaseOf[c] ELSE c

\* String.prototype.toLowerCase
RECURSIVE toLowerCase(_)
toLowerCase(s) ==
    IF s = << >> THEN << >>
    ELSE << toLowerCaseChar(Head(s)) >> \o toLowerCase(Tail(s))

\* String.prototype.includes: search occurs in s at some position
includes(s, search) ==
    \E k \in 0..(Len(s) - Len(search)) :
        \A n \in 1..Len(search) : s[k + n] = search[n]

\* String.prototype.startsWith
startsWith(s, search) ==
    /\ Len(search) <= Len(s)
    /\ \A n \in 1..Len(search) : s[n] = search[n]

----------------------------------------------------------------------------
(* Vocabulary of the properties: the order of strings by UTF-16 code unit *)
(* (the < of JavaScript), subsequences, substrings, letters without case  *)

CodeUnits ==
    <<" ", ".", "0", "1", "2", "3", "4", "5", "6", "7", "8", "9", "A",
      "B", "C", "D", "E", "F", "G", "H", "I", "J", "K", "L", "M", "N",
      "O", "P", "Q", "R", "S", "T", "U", "V", "W", "X", "Y", "Z", "a",
      "b", "c", "d", "e", "f", "g", "h", "i", "j", "k", "l", "m", "n",
      "o", "p", "q", "r", "s", "t", "u", "v", "w", "x", "y", "z">>

CodeUnit(c) == CHOOSE i \in 1..Len(CodeUnits) : CodeUnits[i] = c

\* a < b for strings
RECURSIVE StringLess(_, _)
StringLess(a, b) ==
    IF b = << >> THEN FALSE
    ELSE IF a = << >> THEN TRUE
    ELSE IF Head(a) = Head(b) THEN StringLess(Tail(a), Tail(b))
    ELSE CodeUnit(Head(a)) < CodeUnit(Head(b))

\* the list with item put before the first element of greater name
RECURSIVE InsertByName(_, _)
InsertByName(item, sorted) ==
    IF sorted = << >> THEN << item >>
    ELSE IF StringLess(item.name, Head(sorted).name) THEN << item >> \o sorted
    ELSE << Head(sorted) >> \o InsertByName(item, Tail(sorted))

\* the list ordered by name ascending, equal names in their given order
RECURSIVE SortByName(_)
SortByName(list) ==
    IF list = << >> THEN << >>
    ELSE InsertByName(list[Len(list)], SortByName(SubSeq(list, 1, Len(list) - 1)))

\* list is ordered by name ascending
OrderedByName(list) ==
    \A i, j \in 1..Len(list) : i < j => ~StringLess(list[j].name, list[i].name)

\* a is b with some elements left out
RECURSIVE IsSubsequence(_, _)
IsSubsequence(a, b) ==
    IF a = << >> THEN TRUE
    ELSE IF b = << >> THEN FALSE
    ELSE IF Head(a) = Head(b) THEN IsSubsequence(Tail(a), Tail(b))
    ELSE IsSubsequence(a, Tail(b))

\* needle is a run of consecutive elements of hay
IsSubstring(needle, hay) ==
    \E i \in 1..(Len(hay) + 1), j \in 0..Len(hay) : SubSeq(hay, i, j) = needle

\* two characters that are the same letter in either case, or the same character
SameLetter(a, b) ==
    \/ a = b
    \/ \E i \in 1..Len(UpperCaseLetters) :
           {a, b} = {UpperCaseLetters[i], LowerCaseLetters[i]}

\* needle occurs in hay when the case of letters is ignored
ContainsIgnoringCase(hay, needle) ==
    \E k \in 0..(Len(hay) - Len(needle)) :
        \A n \in 1..Len(needle) : SameLetter(hay[k + n], needle[n])

\* x is an element of the list
InList(x, list) == \E j \in 1..Len(list) : list[j] = x

----------------------------------------------------------------------------
(* Filters computed on every render *)

\* Defective variants of FilterResources: the case of letters not folded, the
\* "All" chip not recognised, the category not tested
FilterResourcesCaseSensitiveMut(query, category) ==
    SelectSeq(allResources,
              LAMBDA resource :
                  /\ includes(resource.title, query)
                  /\ (category = "All" \/ resource.subject = category))

FilterResourcesNoAllMut(query, category) ==
    SelectSeq(allResources,
              LAMBDA resource :
                  /\ includes(toLowerCase(resource.title), toLowerCase(query))
                  /\ resource.subject = category)

FilterResourcesNoCategoryMut(query, category) ==
    SelectSeq(allResources,
              LAMBDA resource :
                  includes(toLowerCase(resource.title), toLowerCase(query)))

\* ResourcesPage: filteredResources
FilterResources(query, category) ==
    SelectSeq(allResources,
              LAMBDA resource :
                  LET matchesSearch ==
                          includes(toLowerCase(resource.title), toLowerCase(query))
                      matchesCategory ==
                          category = "All" \/ resource.subject = category
                  IN  matchesSearch /\ matchesCategory)

\* Defective variants of FilterPeers: the result sorted by name, the search
\* text matched at the start of the name only
FilterPeersSortedMut(query) ==
    SortByName(SelectSeq(peers,
                         LAMBDA p : includes(toLowerCase(p.name), toLowerCase(query))))

FilterPeersPrefixMut(query) ==
    SelectSeq(peers, LAMBDA p : startsWith(toLowerCase(p.name), toLowerCase(query)))

\* Home: filteredPeers
FilterPeers(query) ==
    SelectSeq(peers, LAMBDA p : includes(toLowerCase(p.name), toLowerCase(query)))

\* Home: filteredResources
FilterHomeResources(query) ==
    SelectSeq(resources, LAMBDA r : includes(toLowerCase(r.title), toLowerCase(query)))

\* ChatPage: filteredChats
FilterChats(query) ==
    SelectSeq(chats, LAMBDA chat : includes(toLowerCase(chat.name), toLowerCase(query)))

\* Defective variant of FilterStudents: the year rule left out
FilterStudentsNoYearMut(uni, filter) ==
    SelectSeq(mockStudents,
              LAMBDA s : IF uni # null /\ uni # "" /\ s.uni # uni THEN FALSE ELSE TRUE)

\* FindPeersPage: filteredStudents
FilterStudents(uni, filter) ==
    SelectSeq(mockStudents,
              LAMBDA s :
                  IF uni # null /\ uni # "" /\ s.uni # uni THEN FALSE
                  ELSE IF filter # "All" /\ s.year # filter THEN FALSE
                  ELSE TRUE)

----------------------------------------------------------------------------
(* Routing *)

Slash == "/"

Seg_resources == <<"r", "e", "s", "o", "u", "r", "c", "e", "s">>
Seg_upload == <<"u", "p", "l", "o", "a", "d">>
Seg_chat == <<"c", "h", "a", "t">>
Seg_new == <<"n", "e", "w">>
Seg_profile == <<"p", "r", "o", "f", "i", "l", "e">>
Seg_edit == <<"e", "d", "i", "t">>
Seg_uploads == <<"u", "p", "l", "o", "a", "d", "s">>
Seg_nomsa == <<"n", "o", "m", "s", "a">>
Seg_khotso == <<"k", "h", "o", "t", "s", "o">>
Seg_studygroup == <<"s", "t", "u", "d", "y", "g", "r", "o", "u", "p">>
Seg_chats == <<"c", "h", "a", "t", "s">>

\* the pathname of a URL given by its segments: "/" alone, else "/a/b/c"
RECURSIVE PathOf(_)
PathOf(segments) ==
    IF segments = << >> THEN << Slash >>
    ELSE IF Len(segments) = 1 THEN << Slash >> \o segments[1]
    ELSE PathOf(SubSeq(segments, 1, Len(segments) - 1))
             \o << Slash >> \o segments[Len(segments)]

\* the URLs the user visits: the pages of the app, and some that are no page
Routes ==
    { << >>,
      << Seg_resources >>, << Seg_resources, Seg_upload >>,
      << Seg_chat >>, << Seg_chat, Seg_new >>,
      << Seg_chat, Seg_nomsa >>, << Seg_chat, Seg_khotso >>,
      << Seg_chat, Seg_studygroup >>,
      << Seg_chat, Seg_profile, Seg_nomsa >>,
      << Seg_profile >>, << Seg_profile, Seg_edit >>,
      << Seg_profile, Seg_uploads >>,
      << Seg_chats >>, << Seg_chats, Seg_nomsa >>,
      << Seg_profile, Seg_edit, Seg_uploads >>,
      << Seg_resources, Seg_chat, Seg_nomsa >> }

HomePath == PathOf(<< >>)
ResourcesPath == PathOf(<< Seg_resources >>)
UploadPath == PathOf(<< Seg_resources, Seg_upload >>)
ChatPath == PathOf(<< Seg_chat >>)
FindPeersPath == PathOf(<< Seg_chat, Seg_new >>)
ManageUploadsPath == PathOf(<< Seg_profile, Seg_uploads >>)

\* Defective variant of shouldHide: the prefix tested without its last "/"
shouldHideNoSlashMut(path) ==
    \/ (/\ startsWith(path, <<"/", "c", "h", "a", "t">>)
        /\ path # <<"/", "c", "h", "a", "t">>)
    \/ path = <<"/", "p", "r", "o", "f", "i", "l", "e", "/", "e", "d", "i", "t">>

\* BottomNav: shouldHide
shouldHide(path) ==
    \/ (/\ startsWith(path, <<"/", "c", "h", "a", "t", "/">>)
        /\ path # <<"/", "c", "h", "a", "t">>)
    \/ path = <<"/", "p", "r", "o", "f", "i", "l", "e", "/", "e", "d", "i", "t">>

\* BottomNav returns null when shouldHide, the <nav> otherwise
BottomNavRendered == ~shouldHide(pathname)

----------------------------------------------------------------------------
(* The first render of each page, from the values its useState calls give *)

FirstFilteredResources == FilterResources(<< >>, "All")
FirstFilteredPeers == FilterPeers(<< >>)
FirstHomeFilteredResources == FilterHomeResources(<< >>)
FirstFilteredChats == FilterChats(<< >>)
FirstFilteredStudents == FilterStudents(null, "All")

----------------------------------------------------------------------------
(* Initial state: the app opened on the dashboard, every state at the value *)
(* its useState call gives it                                               *)

Init ==
    /\ route = << >>
    /\ pathname = PathOf(<< >>)
    /\ searchQuery = << >>
    /\ selectedCategory = "All"
    /\ filteredResources = FirstFilteredResources
    /\ homeQuery = << >>
    /\ filteredPeers = FirstFilteredPeers
    /\ homeFilteredResources = FirstHomeFilteredResources
    /\ chatQuery = << >>
    /\ filteredChats = FirstFilteredChats
    /\ step = "menu"
    /\ selectedUni = null
    /\ selectedFilter = "All"
    /\ filteredStudents = FirstFilteredStudents
    /\ uploads = initialUploads
    /\ deletingId = nullId
    /\ file = null
    /\ isUploading = FALSE
    /\ timers = << >>
    /\ alerts = 0
    /\ confirmAnswer = "none"
    /\ lastBack = "none"

\* Opening a URL (a Link, the address bar, a reload): the router renders the
\* page of that URL; the page left is unmounted and the page entered starts
\* from its useState values.  The callbacks of timers the unmounted page
\* started set the state of that discarded instance only; the alerts they
\* still show belong to no mounted page and are not counted.
Navigate(r) ==
    /\ route' = r
    /\ pathname' = PathOf(r)
    /\ searchQuery' = << >>
    /\ selectedCategory' = "All"
    /\ filteredResources' = FirstFilteredResources
    /\ homeQuery' = << >>
    /\ filteredPeers' = FirstFilteredPeers
    /\ homeFilteredResources' = FirstHomeFilteredResources
    /\ chatQuery' = << >>
    /\ filteredChats' = FirstFilteredChats
    /\ step' = "menu"
    /\ selectedUni' = null
    /\ selectedFilter' = "All"
    /\ filteredStudents' = FirstFilteredStudents
    /\ uploads' = initialUploads
    /\ deletingId' = nullId
    /\ file' = null
    /\ isUploading' = FALSE
    /\ timers' = << >>
    /\ alerts' = 0
    /\ confirmAnswer' = "none"
    /\ lastBack' = "none"

\* the values a search input can take by one edit of text: a character typed,
\* the last character deleted, the field cleared
Edits(text) ==
    {Append(text, c) : c \in {x \in QueryAlphabet : Len(text) < MaxQueryLen}}
        \cup {SubSeq(text, 1, Len(text) - 1) : x \in {y \in {1} : Len(text) > 0}}
        \cup {<< >>}

----------------------------------------------------------------------------
(* ResourcesPage *)

\* search bar onChange: setSearchQuery(e.target.value)
SetSearchQuery(value) ==
    /\ pathname = ResourcesPath
    /\ searchQuery' = value
    /\ filteredResources' = FilterResources(value, selectedCategory)
    /\ UNCHANGED << route, pathname, selectedCategory, homeVars, chatVars,
                    wizardVars, uploadsVars, uploadVars, timers, alerts,
                    confirmAnswer, lastBack >>

\* category chip onClick: setSelectedCategory(cat)
SetSelectedCategory(cat) ==
    /\ pathname = ResourcesPath
    /\ selectedCategory' = cat
    /\ filteredResources' = FilterResources(searchQuery, cat)
    /\ UNCHANGED << route, pathname, searchQuery, homeVars, chatVars,
                    wizardVars, uploadsVars, uploadVars, timers, alerts,
                    confirmAnswer, lastBack >>

----------------------------------------------------------------------------
(* Home *)

\* global search bar onChange: setQuery(e.target.value)
HomeSetQuery(value) ==
    /\ pathname = HomePath
    /\ homeQuery' = value
    /\ filteredPeers' = FilterPeers(value)
    /\ homeFilteredResources' = FilterHomeResources(value)
    /\ UNCHANGED << route, pathname, resourcesVars, chatVars,
                    wizardVars, uploadsVars, uploadVars, timers, alerts,
                    confirmAnswer, lastBack >>

----------------------------------------------------------------------------
(* ChatPage *)

\* search bar onChange: setQuery(e.target.value)
ChatSetQuery(value) ==
    /\ pathname = ChatPath
    /\ chatQuery' = value
    /\ filteredChats' = FilterChats(value)
    /\ UNCHANGED << route, pathname, resourcesVars, homeVars,
                    wizardVars, uploadsVars, uploadVars, timers, alerts,
                    confirmAnswer, lastBack >>

----------------------------------------------------------------------------
(* FindPeersPage *)

\* Defective variant of WizardBack: one step back instead of back to the menu
WizardBackOneStepMut ==
    /\ pathname = FindPeersPath
    /\ IF step = "menu"
       THEN \/ /\ lastBack' = "history"
               /\ UNCHANGED << route, pathname, resourcesVars, homeVars, chatVars,
                               wizardVars, uploadsVars, uploadVars, timers, alerts,
                               confirmAnswer >>
            \/ \E r \in Routes : Navigate(r)
       ELSE /\ step' = IF step = "results" THEN "universities" ELSE "menu"
            /\ filteredStudents' = FilterStudents(selectedUni, selectedFilter)
            /\ lastBack' = "setStep"
            /\ UNCHANGED << route, pathname, selectedUni, selectedFilter,
                            resourcesVars, homeVars, chatVars, uploadsVars,
                            uploadVars, timers, alerts, confirmAnswer >>

\* Defective variant of WizardBack: only the universities step goes to the
\* menu, the results step calls window.history.back() as the menu does
WizardBackHistoryFromResultsMut ==
    /\ pathname = FindPeersPath
    /\ IF step # "universities"
       THEN \/ /\ lastBack' = "history"
               /\ UNCHANGED << route, pathname, resourcesVars, homeVars, chatVars,
                               wizardVars, uploadsVars, uploadVars, timers, alerts,
                               confirmAnswer >>
            \/ \E r \in Routes : Navigate(r)
       ELSE /\ step' = "menu"
            /\ filteredStudents' = FilterStudents(selectedUni, selectedFilter)
            /\ lastBack' = "setStep"
            /\ UNCHANGED << route, pathname, selectedUni, selectedFilter,
                            resourcesVars, homeVars, chatVars, uploadsVars,
                            uploadVars, timers, alerts, confirmAnswer >>

\* header back button onClick: window.history.back() on the menu, which
\* leaves the page for an earlier URL of the session or, with no earlier
\* entry, does nothing; setStep("menu") on the other steps.  lastBack
\* records which of the two the click called.
WizardBack ==
    /\ pathname = FindPeersPath
    /\ IF step = "menu"
       THEN \/ /\ lastBack' = "history"
               /\ UNCHANGED << route, pathname, resourcesVars, homeVars, chatVars,
                               wizardVars, uploadsVars, uploadVars, timers, alerts,
                               confirmAnswer >>
            \/ \E r \in Routes : Navigate(r)
       ELSE /\ step' = "menu"
            /\ filteredStudents' = FilterStudents(selectedUni, selectedFilter)
            /\ lastBack' = "setStep"
            /\ UNCHANGED << route, pathname, selectedUni, selectedFilter,
                            resourcesVars, homeVars, chatVars, uploadsVars,
                            uploadVars, timers, alerts, confirmAnswer >>

\* "Find University" button, rendered on the menu step: setStep("universities")
FindUniversity ==
    /\ pathname = FindPeersPath
    /\ step = "menu"
    /\ step' = "universities"
    /\ filteredStudents' = FilterStudents(selectedUni, selectedFilter)
    /\ UNCHANGED << route, pathname, selectedUni, selectedFilter,
                    resourcesVars, homeVars, chatVars, uploadsVars,
                    uploadVars, timers, alerts,
                    confirmAnswer, lastBack >>

\* university button, rendered on the universities step:
\* setSelectedUni(uni.id); setStep("results")
PickUniversity(uni) ==
    /\ pathname = FindPeersPath
    /\ step = "universities"
    /\ selectedUni' = uni
    /\ step' = "results"
    /\ filteredStudents' = FilterStudents(uni, selectedFilter)
    /\ UNCHANGED << route, pathname, selectedFilter,
                    resourcesVars, homeVars, chatVars, uploadsVars,
                    uploadVars, timers, alerts,
                    confirmAnswer, lastBack >>

\* year chip, rendered on the results step: setSelectedFilter(filter)
SetSelectedFilter(filter) ==
    /\ pathname = FindPeersPath
    /\ step = "results"
    /\ selectedFilter' = filter
    /\ filteredStudents' = FilterStudents(selectedUni, filter)
    /\ UNCHANGED << route, pathname, step, selectedUni,
                    resourcesVars, homeVars, chatVars, uploadsVars,
                    uploadVars, timers, alerts,
                    confirmAnswer, lastBack >>

\* results step: the student cards are rendered when the list is not empty,
\* "No students found for this filter." otherwise
EmptyStateShown == step = "results" /\ Len(filteredStudents) = 0

----------------------------------------------------------------------------
(* ManageUploadsPage *)

\* the Remove button of an item: disabled, and showing the spinner, exactly
\* when the item is the one deletingId names
RemoveButtonDisabled(id) == deletingId = id

\* the list without the item of the given id: prev.filter(item => item.id !== id)
RemoveById(prev, id) == SelectSeq(prev, LAMBDA item : item.id # id)

\* Defective variant of HandleDelete: the answer to confirm() is not looked at
HandleDeleteIgnoresAnswerMut(id, confirmed) ==
    /\ pathname = ManageUploadsPath
    /\ \E i \in 1..Len(uploads) : uploads[i].id = id
    /\ ~RemoveButtonDisabled(id)
    /\ Len(timers) < MaxTimers
    /\ confirmAnswer' = IF confirmed THEN "yes" ELSE "no"
    /\ deletingId' = id
    /\ timers' = Append(timers, [kind |-> "delete", id |-> id])
    /\ UNCHANGED << route, pathname, uploads, alerts, resourcesVars,
                    homeVars, chatVars, wizardVars, uploadVars, lastBack >>

\* the Remove button of a listed file; it is disabled while deletingId is the
\* file's id.  confirm() blocks until the user answers.
HandleDelete(id, confirmed) ==
    /\ pathname = ManageUploadsPath
    /\ \E i \in 1..Len(uploads) : uploads[i].id = id
    /\ ~RemoveButtonDisabled(id)
    /\ IF ~confirmed
       THEN /\ confirmAnswer' = "no"
            /\ UNCHANGED << route, pathname, uploads, deletingId, timers, alerts,
                            resourcesVars, homeVars, chatVars, wizardVars,
                            uploadVars, lastBack >>
       ELSE /\ Len(timers) < MaxTimers
            /\ confirmAnswer' = "yes"
            /\ deletingId' = id
            /\ timers' = Append(timers, [kind |-> "delete", id |-> id])
            /\ UNCHANGED << route, pathname, uploads, alerts, resourcesVars,
                            homeVars, chatVars, wizardVars, uploadVars,
                            lastBack >>

\* Defective variant of DeleteTimerFire: the item removed is that of
\* deletingId, not that of the id the callback was created with
DeleteTimerFireUsesDeletingIdMut ==
    /\ timers # << >>
    /\ Head(timers).kind = "delete"
    /\ uploads' = RemoveById(uploads, deletingId)
    /\ deletingId' = nullId
    /\ timers' = Tail(timers)
    /\ alerts' = alerts + 1
    /\ UNCHANGED << route, pathname, confirmAnswer, resourcesVars, homeVars,
                    chatVars, wizardVars, uploadVars, lastBack >>

\* the callback handleDelete passed to setTimeout(..., 1500): alert(), then
\* setUploads(prev => ...) and setDeletingId(null).  Timers of equal delay
\* run in the order they were started.
DeleteTimerFire ==
    /\ timers # << >>
    /\ Head(timers).kind = "delete"
    /\ uploads' = RemoveById(uploads, Head(timers).id)
    /\ deletingId' = nullId
    /\ timers' = Tail(timers)
    /\ alerts' = alerts + 1
    /\ UNCHANGED << route, pathname, confirmAnswer, resourcesVars, homeVars,
                    chatVars, wizardVars, uploadVars, lastBack >>

----------------------------------------------------------------------------
(* UploadResourcePage *)

\* file input onChange; files is e.target.files, empty when the dialog is
\* cancelled
HandleFileChange(files) ==
    /\ pathname = UploadPath
    /\ file' = IF Len(files) > 0 THEN files[1] ELSE file
    /\ UNCHANGED << route, pathname, isUploading, resourcesVars, homeVars,
                    chatVars, wizardVars, uploadsVars, timers, alerts,
                    confirmAnswer, lastBack >>

\* the submit button: disabled={!file || isUploading}
SubmitButtonDisabled == file = null \/ isUploading

\* Defective variant of HandleSubmit: the button is disabled only when no
\* file is selected
HandleSubmitWhileUploadingMut ==
    /\ pathname = UploadPath
    /\ file # null
    /\ Len(timers) < MaxTimers
    /\ alerts < MaxAlerts
    /\ isUploading' = TRUE
    /\ timers' = Append(timers, [kind |-> "upload", id |-> nullId])
    /\ UNCHANGED << route, pathname, file, alerts, confirmAnswer, resourcesVars,
                    homeVars, chatVars, wizardVars, uploadsVars, lastBack >>

\* form onSubmit; the submit button is disabled when !file || isUploading.
\* The title field is required; its text is no state of the page and is
\* taken to be filled in.
HandleSubmit ==
    /\ pathname = UploadPath
    /\ ~SubmitButtonDisabled
    /\ Len(timers) < MaxTimers
    /\ alerts < MaxAlerts
    /\ isUploading' = TRUE
    /\ timers' = Append(timers, [kind |-> "upload", id |-> nullId])
    /\ UNCHANGED << route, pathname, file, alerts, confirmAnswer, resourcesVars,
                    homeVars, chatVars, wizardVars, uploadsVars, lastBack >>

\* Defective variant of UploadTimerFire: the form is reset with setFile(null)
UploadTimerFireClearsFileMut ==
    /\ timers # << >>
    /\ Head(timers).kind = "upload"
    /\ alerts' = alerts + 1
    /\ isUploading' = FALSE
    /\ file' = null
    /\ timers' = Tail(timers)
    /\ UNCHANGED << route, pathname, confirmAnswer, resourcesVars, homeVars,
                    chatVars, wizardVars, uploadsVars, lastBack >>

\* Defective variant of UploadTimerFire: the callback shows the alert and
\* leaves the spinner on
UploadTimerFireKeepsSpinnerMut ==
    /\ timers # << >>
    /\ Head(timers).kind = "upload"
    /\ alerts' = alerts + 1
    /\ timers' = Tail(timers)
    /\ UNCHANGED << route, pathname, file, isUploading, confirmAnswer, resourcesVars,
                    homeVars, chatVars, wizardVars, uploadsVars, lastBack >>

\* the callback handleSubmit passed to setTimeout(..., 2000):
\* setIsUploading(false), then alert()
UploadTimerFire ==
    /\ timers # << >>
    /\ Head(timers).kind = "upload"
    /\ alerts' = alerts + 1
    /\ isUploading' = FALSE
    /\ timers' = Tail(timers)
    /\ UNCHANGED << route, pathname, file, confirmAnswer, resourcesVars, homeVars,
                    chatVars, wizardVars, uploadsVars, lastBack >>

----------------------------------------------------------------------------
(* The app *)

Next ==
    \/ \E r \in Routes : Navigate(r)
    \/ \E value \in Edits(searchQuery) : SetSearchQuery(value)
    \/ \E i \in 1..Len(categories) : SetSelectedCategory(categories[i])
    \/ \E value \in Edits(homeQuery) : HomeSetQuery(value)
    \/ \E value \in Edits(chatQuery) : ChatSetQuery(value)
    \/ WizardBack
    \/ FindUniversity
    \/ \E i \in 1..Len(universities) : PickUniversity(universities[i])
    \/ \E i \in 1..Len(yearFilters) : SetSelectedFilter(yearFilters[i])
    \/ \E i \in 1..Len(uploads), confirmed \in BOOLEAN :
           HandleDelete(uploads[i].id, confirmed)
    \/ DeleteTimerFire
    \/ \E files \in {<< >>} \cup {<< f >> : f \in Files} : HandleFileChange(files)
    \/ HandleSubmit
    \/ UploadTimerFire

Spec == Init /\ [][Next]_vars

\* A pending setTimeout callback runs once its delay has passed: the event
\* loop does not leave a due timer waiting forever.
FairSpec == Spec /\ WF_vars(UploadTimerFire) /\ WF_vars(DeleteTimerFire)

----------------------------------------------------------------------------
(* Resource library search *)

\* C1: the resources displayed are exactly the entries of allResources whose
\* lower-cased title has the lower-cased search text as a substring and whose
\* subject equals the selected category, or any subject when it is "All".
C1_SearchSoundAndComplete ==
    /\ \A j \in 1..Len(filteredResources) : InList(filteredResources[j], allResources)
    /\ \A i \in 1..Len(allResources) :
           InList(allResources[i], filteredResources)
               <=> /\ IsSubstring(toLowerCase(searchQuery),
                                  toLowerCase(allResources[i].title))
                   /\ (selectedCategory = "All"
                          \/ allResources[i].subject = selectedCategory)

\* "C" typed with the Mathematics chip on: the text leaves out one entry, the
\* category three more
C1_Witness ==
    /\ pathname = ResourcesPath
    /\ searchQuery = << "C" >>
    /\ selectedCategory = "Mathematics"
    /\ filteredResources = << allResources[1] >>

\* C2: with an empty search text and the category "All", the resources
\* displayed are the whole of allResources, each entry once, in its order.
C2_IdentitySearch ==
    (searchQuery = << >> /\ selectedCategory = "All")
        => filteredResources = allResources

\* the search text typed and deleted again on the resources page
C2_Witness ==
    /\ pathname = ResourcesPath
    /\ searchQuery = << >>
    /\ selectedCategory = "All"
    /\ Len(filteredResources) = 5

\* C3: on the resources page, the home page and the chat inbox the list
\* displayed is a subsequence of its source array.
C3_FilterIsStable ==
    /\ IsSubsequence(filteredResources, allResources)
    /\ IsSubsequence(filteredPeers, peers)
    /\ IsSubsequence(homeFilteredResources, resources)
    /\ IsSubsequence(filteredChats, chats)

\* "l" on the home page keeps the first and the third peer
C3_Witness ==
    /\ pathname = HomePath
    /\ homeQuery = << "l" >>
    /\ filteredPeers = << peers[1], peers[3] >>

\* C4: "calc" with no subject filter displays "Calculus 101 Finals"; "calc"
\* with the subject Physics displays nothing.
C4_CalcScenario ==
    /\ allResources[1].subject = "Mathematics"
    /\ (searchQuery = << "c", "a", "l", "c" >> /\ selectedCategory = "All")
           => InList(allResources[1], filteredResources)
    /\ (searchQuery = << "c", "a", "l", "c" >> /\ selectedCategory = "Physics")
           => filteredResources = << >>

\* "calc" typed with the Physics chip on
C4_Witness ==
    /\ pathname = ResourcesPath
    /\ searchQuery = << "c", "a", "l", "c" >>
    /\ selectedCategory = "Physics"
    /\ filteredResources = << >>

----------------------------------------------------------------------------
(* Peer search *)

\* C5 as stated: the peers displayed are those whose name contains the search
\* text case-insensitively, all of them for the empty text, ordered by name
\* ascending.
C5_PeersOrderedByName ==
    /\ \A i \in 1..Len(peers) :
           InList(peers[i], filteredPeers)
               <=> ContainsIgnoringCase(peers[i].name, homeQuery)
    /\ (homeQuery = << >> => \A i \in 1..Len(peers) : InList(peers[i], filteredPeers))
    /\ OrderedByName(filteredPeers)

\* C5: the peers displayed are those whose name contains the search text
\* case-insensitively, all of them for the empty text, in the order of the
\* peers array (which is not the order of their names); likewise the
\* conversations of the chat inbox.
C5_PeersInSourceOrder ==
    /\ \A i \in 1..Len(peers) :
           InList(peers[i], filteredPeers)
               <=> ContainsIgnoringCase(peers[i].name, homeQuery)
    /\ (homeQuery = << >> => filteredPeers = peers)
    /\ IsSubsequence(filteredPeers, peers)
    /\ \A i \in 1..Len(chats) :
           InList(chats[i], filteredChats)
               <=> ContainsIgnoringCase(chats[i].name, chatQuery)
    /\ (chatQuery = << >> => filteredChats = chats)
    /\ IsSubsequence(filteredChats, chats)

\* "A" on the home page: Nomsa Dlamini before Khotso Mokoena
C5_Witness ==
    /\ pathname = HomePath
    /\ homeQuery = << "A" >>
    /\ filteredPeers = << peers[1], peers[2] >>
    /\ ~OrderedByName(filteredPeers)

----------------------------------------------------------------------------
(* Student discovery *)

\* a student of the selected university and of the selected year
MatchesUniAndYear(s) ==
    s.uni = selectedUni /\ (selectedFilter = "All" \/ s.year = selectedFilter)

\* C6: on the results step a university is selected, the students listed are
\* exactly those of mockStudents at that university and, unless the chip is
\* "All", of the selected year, and the empty-state message is shown exactly
\* when there is no such student.
C6_StudentsByUniAndYear ==
    step = "results" =>
        /\ InList(selectedUni, universities)
        /\ \A i \in 1..Len(mockStudents) :
               InList(mockStudents[i], filteredStudents)
                   <=> MatchesUniAndYear(mockStudents[i])
        /\ \A j \in 1..Len(filteredStudents) : InList(filteredStudents[j], mockStudents)
        /\ EmptyStateShown
               <=> ~\E i \in 1..Len(mockStudents) : MatchesUniAndYear(mockStudents[i])

\* UKZN picked and the "1st Year" chip on: one of its two students is listed
C6_Witness ==
    /\ step = "results"
    /\ selectedUni = "ukzn"
    /\ selectedFilter = "1st Year"
    /\ filteredStudents = << mockStudents[2] >>

----------------------------------------------------------------------------
(* Simulated upload and delete *)

\* a click on Remove that the user confirms
ConfirmedDelete == \E i \in 1..Len(uploads) : HandleDelete(uploads[i].id, TRUE)

----------------------------------------------------------------------------
(* The find-peers wizard *)

\* C9: the wizard is on the menu step when the page is opened; the
\* universities step is entered from the menu only; the results step is
\* entered from the universities step only, and with a university picked.
C9_WizardStepsInOrder ==
    /\ step = "menu"
    /\ [][/\ (\E r \in Routes : Navigate(r)) => step' = "menu"
          /\ (step' = "universities" /\ step # "universities") => step = "menu"
          /\ (step' = "results" /\ step # "results")
                 => (step = "universities" /\ InList(selectedUni', universities))]_vars

\* the results step reached with Wits picked
C9_Witness ==
    /\ pathname = FindPeersPath
    /\ step = "results"
    /\ selectedUni = "wits"

----------------------------------------------------------------------------
(* The bottom navigation bar *)

\* C10: the bar is not rendered exactly when the URL is beneath /chat/ (a
\* conversation, and also /chat/new and /chat/profile/...) or is
\* /profile/edit; usePathname() is the path of the URL.
C10_BottomNavHidden ==
    /\ pathname = PathOf(route)
    /\ ~BottomNavRendered
           <=> \/ (Len(route) >= 2 /\ route[1] = Seg_chat)
               \/ route = << Seg_profile, Seg_edit >>

\* inside the conversation with Nomsa the bar is hidden
C10_Witness ==
    /\ route = << Seg_chat, Seg_nomsa >>
    /\ ~BottomNavRendered

----------------------------------------------------------------------------
(* The inbox and the conversation logs *)

\* C11: every conversation the inbox renders shows, as its preview text and
\* timestamp, the text and the time of the last message of that conversation's
\* message list.
C11_PreviewIsLastMessage ==
    \A i \in 1..Len(filteredChats) :
        LET messages == ChatDetailMessages(filteredChats[i].id)
        IN  /\ messages # << >>
            /\ filteredChats[i].message = messages[Len(messages)].text
            /\ filteredChats[i].time = messages[Len(messages)].time

----------------------------------------------------------------------------
(* Upload validation *)

\* C12: a file larger than the documented limit (10 MB) or of a type outside
\* the documented list (PDF, DOCX, JPG) is never the selected file of the
\* upload page, and so is never the file of an upload in progress.
C12_OnlyValidFileSelected ==
    file # null =>
        /\ FileSizeMB[file] <= MaxFileSizeMB
        /\ FileType[file] \in AllowedTypes

----------------------------------------------------------------------------
(* The spinner of the Remove buttons *)

\* a confirmed deletion of the item whose timer has not fired yet
DeletionPending(id) ==
    \E k \in 1..Len(timers) : timers[k].kind = "delete" /\ timers[k].id = id

\* C13: at every moment the Remove button of an item is disabled (and spins)
\* if and only if a deletion of that item has been confirmed and its timer
\* has not fired yet, whatever happens to deletions of other items.
C13_SpinnerIffPending ==
    pathname = ManageUploadsPath =>
        \A i \in 1..Len(uploads) :
            RemoveButtonDisabled(uploads[i].id) <=> DeletionPending(uploads[i].id)

----------------------------------------------------------------------------
(* The confirmation of a delete *)

\* a click on an enabled Remove button whose confirm() dialog is answered
\* negatively
DeclinedDelete ==
    \E i \in 1..Len(uploads) : HandleDelete(uploads[i].id, FALSE)

\* C14: a click on Remove whose confirmation is declined changes neither the
\* list of uploads nor deletingId, starts no timer and shows no alert; as the
\* page shows an alert only from a timer callback, no alert follows from the
\* click later either.
C14_DeclineIsNoOp ==
    /\ [][DeclinedDelete =>
               /\ confirmAnswer' = "no"
               /\ UNCHANGED << uploads, deletingId, timers, alerts >>]_vars
    /\ [][alerts' > alerts => timers # << >> /\ timers' = Tail(timers)]_vars

\* the first click on the page was declined: the list is whole, no button
\* spins, no timer is pending and no alert has been shown
C14_Witness ==
    /\ pathname = ManageUploadsPath
    /\ confirmAnswer = "no"
    /\ uploads = initialUploads
    /\ deletingId = nullId
    /\ timers = << >>
    /\ alerts = 0

----------------------------------------------------------------------------
(* Starting an upload *)

\* the simulated uploads whose timer has not fired yet
PendingUploads == SelectSeq(timers, LAMBDA t : t.kind = "upload")

\* a step that starts a simulated upload: a new upload timer is pending
UploadStarted ==
    /\ Len(timers') = Len(timers) + 1
    /\ timers'[Len(timers')].kind = "upload"

----------------------------------------------------------------------------
(* The end of an upload *)

\* a step of the router: the page is mounted anew or another page is opened
PageOpened == \E r \in Routes : Navigate(r)

----------------------------------------------------------------------------
(* The wizard's back button *)

\* C17: a click on the back button on the menu step calls
\* window.history.back() and the step stays "menu" (the page is either left
\* by the router or unchanged); on the universities step and on the results
\* step it calls setStep("menu") and nothing else, so Back from the results
\* shows the menu, not the list of universities, and the page stays open
\* with its university and year selection.
C17_WizardBackButton ==
    [][WizardBack =>
           IF step = "menu"
           THEN /\ step' = "menu"
                /\ \/ lastBack' = "history" /\ UNCHANGED << pathname, wizardVars >>
                   \/ PageOpened
           ELSE /\ step' = "menu"
                /\ lastBack' = "setStep"
                /\ UNCHANGED << route, pathname, selectedUni, selectedFilter >>]_vars

\* Back was clicked on the results of UCT's 2nd-year students, which showed
\* the menu with the selection kept, and then on the menu, which called
\* window.history.back() and left the menu shown
C17_Witness ==
    /\ pathname = FindPeersPath
    /\ step = "menu"
    /\ lastBack = "history"
    /\ selectedUni = "uct"
    /\ selectedFilter = "2nd Year"

====
